---- MODULE Spec2Model ----
(***************************************************************************)
(* Model of chatbot.py: the domain classifier, the quote fetcher, the      *)
(* markup formatter and the response generator of one chat turn.           *)
(* Python strings are sequences of one-character strings.                  *)
(***************************************************************************)
EXTENDS Integers, Sequences, FiniteSets, TLC

(***************************************************************************)
(* Bounds of the model.                                                    *)
(***************************************************************************)
\* most output items in the first model response
MaxItems == 2
\* most words of a query given to the classifier
MaxWords == 3
\* most characters of a text given to the formatter
MaxLen == 4

(***************************************************************************)
(* Python str operations.                                                  *)
(***************************************************************************)
UpperLetters == <<"A","B","C","D","E","F","G","H","I","J","K","L","M","N","O","P","Q","R","S","T","U","V","W","X","Y","Z">>
LowerLetters == <<"a","b","c","d","e","f","g","h","i","j","k","l","m","n","o","p","q","r","s","t","u","v","w","x","y","z">>

IndexIn(c, letters) ==
  IF \E i \in 1..Len(letters) : letters[i] = c
  THEN CHOOSE i \in 1..Len(letters) : letters[i] = c
  ELSE 0

\* str.lower() of one character
LowerChar(c) ==
  IF IndexIn(c, UpperLetters) > 0 THEN LowerLetters[IndexIn(c, UpperLetters)] ELSE c

\* str.upper() of one character
UpperChar(c) ==
  IF IndexIn(c, LowerLetters) > 0 THEN UpperLetters[IndexIn(c, LowerLetters)] ELSE c

\* str.lower()
lower(s) == [i \in 1..Len(s) |-> LowerChar(s[i])]

\* str.upper()
upper(s) == [i \in 1..Len(s) |-> UpperChar(s[i])]

\* str.isupper() of one character
isupper(c) == IndexIn(c, UpperLetters) > 0

\* str.isspace() of one character
IsSpace(c) == c \in {" ", "\n"}

\* sub occurs in s at position i
MatchAt(sub, s, i) ==
  /\ i >= 1
  /\ i + Len(sub) - 1 <= Len(s)
  /\ \A j \in 1..Len(sub) : s[i + j - 1] = sub[j]

\* Python's `sub in s`
Contains(s, sub) == \E i \in 1..(Len(s) + 1) : MatchAt(sub, s, i)

\* str.find(sub) as a 1-based position, 0 when absent
Find(s, sub) ==
  IF Contains(s, sub)
  THEN CHOOSE i \in 1..(Len(s) + 1) :
         /\ MatchAt(sub, s, i)
         /\ \A k \in 1..(i - 1) : ~MatchAt(sub, s, k)
  ELSE 0

\* str.startswith(prefix)
startswith(s, prefix) == MatchAt(prefix, s, 1)

\* str.replace(old, new, 1)
ReplaceFirst(s, old, new) ==
  LET p == Find(s, old) IN
    IF p = 0 THEN s
    ELSE SubSeq(s, 1, p - 1) \o new \o SubSeq(s, p + Len(old), Len(s))

\* str.count(sub), the non-overlapping occurrences from the left
RECURSIVE count(_, _)
count(s, sub) ==
  LET p == Find(s, sub) IN
    IF p = 0 THEN 0
    ELSE 1 + count(SubSeq(s, p + Len(sub), Len(s)), sub)

\* str.strip()
RECURSIVE lstrip(_)
lstrip(s) ==
  IF s # <<>> /\ IsSpace(Head(s)) THEN lstrip(Tail(s)) ELSE s

RECURSIVE rstrip(_)
rstrip(s) ==
  IF s # <<>> /\ IsSpace(s[Len(s)]) THEN rstrip(SubSeq(s, 1, Len(s) - 1)) ELSE s

strip(s) == rstrip(lstrip(s))

\* str.split(sep) for a one-character sep: empty pieces are kept
RECURSIVE SplitOn(_, _)
SplitOn(s, sep) ==
  LET p == Find(s, <<sep>>) IN
    IF p = 0 THEN <<s>>
    ELSE <<SubSeq(s, 1, p - 1)>> \o SplitOn(SubSeq(s, p + 1, Len(s)), sep)

\* str.split() with no argument: runs of whitespace separate, no empty piece
RECURSIVE SplitWhitespace(_)
SplitWhitespace(s) ==
  LET t == lstrip(s) IN
    IF t = <<>> THEN <<>>
    ELSE LET ends == {i \in 1..Len(t) : IsSpace(t[i])}
             e == IF ends = {} THEN Len(t) + 1
                  ELSE CHOOSE i \in ends : \A k \in ends : i <= k
         IN <<SubSeq(t, 1, e - 1)>> \o SplitWhitespace(SubSeq(t, e, Len(t)))

\* sep.join(parts)
RECURSIVE Join(_, _)
Join(parts, sep) ==
  IF parts = <<>> THEN <<>>
  ELSE IF Len(parts) = 1 THEN parts[1]
  ELSE parts[1] \o sep \o Join(Tail(parts), sep)

(***************************************************************************)
(* is_related_to_stocks_crypto: the keyword lists.                         *)
(***************************************************************************)
keywords == <<
  <<"s","t","o","c","k">>, <<"s","t","o","c","k","s">>, <<"c","r","y","p","t","o">>, <<"c","r","y","p","t","o","c","u","r","r","e","n","c","y">>, <<"t","r","a","d","e">>, <<"t","r","a","d","i","n","g">>,
  <<"m","a","r","k","e","t">>, <<"p","r","i","c","e">>, <<"i","n","v","e","s","t">>, <<"i","n","v","e","s","t","m","e","n","t">>, <<"b","i","t","c","o","i","n">>, <<"e","t","h","e","r","e","u","m">>,
  <<"p","o","r","t","f","o","l","i","o">>, <<"b","u","l","l">>, <<"b","e","a","r">>, <<"e","x","c","h","a","n","g","e">>, <<"g","o","l","d">>, <<"X","A","U","U","S","D">> >>

company_keywords == <<
  <<"c","o","m","p","a","n","y">>, <<"b","u","s","i","n","e","s","s">>, <<"c","o","r","p","o","r","a","t","i","o","n">>, <<"i","n","c">>, <<"l","t","d">>, <<"i","n","f","o","r","m","a","t","i","o","n">>,
  <<"o","p","e","r","a","t","i","o","n","s">>, <<"i","n","d","u","s","t","r","y">>, <<"r","e","v","e","n","u","e">>, <<"p","r","o","d","u","c","t","s">>, <<"s","e","r","v","i","c","e","s">> >>

known_companies == <<
  <<"t","e","s","l","a">>, <<"a","p","p","l","e">>, <<"m","i","c","r","o","s","o","f","t">>, <<"g","o","o","g","l","e">>, <<"a","m","a","z","o","n">>, <<"f","a","c","e","b","o","o","k">>,
  <<"n","v","i","d","i","a">>, <<"c","o","i","n","b","a","s","e">>, <<"b","i","n","a","n","c","e">>, <<"n","e","t","f","l","i","x">>, <<"f","o","r","d">>, <<"g","m">>,
  <<"b","o","e","i","n","g">>, <<"h","p">> >>

\* any(keyword in query_lower for keyword in list)
AnyKeywordIn(list, query_lower) ==
  \E i \in 1..Len(list) : Contains(query_lower, list[i])

IsCandidate(word) == isupper(word[1]) /\ Len(word) > 2

\* the capitalized words of the query longer than 2 characters
potential_companies(query) == SelectSeq(SplitWhitespace(query), IsCandidate)

\* what yf.Ticker(symbol).info does: a mapping with "symbol", a mapping
\* without it (or an empty one), or an exception
ProbeOutcomes == {"has_symbol", "no_symbol", "raises"}

(***************************************************************************)
(* The quote fetcher and the tool-result text.                             *)
(***************************************************************************)
Digit(d) == <<"0","1","2","3","4","5","6","7","8","9">>[d + 1]

\* str() of a non-negative integer
RECURSIVE IntStr(_)
IntStr(n) == IF n < 10 THEN <<Digit(n)>> ELSE IntStr(n \div 10) \o <<Digit(n % 10)>>

\* str() of a float with at most 2 decimals, held in hundredths: 150.25, 150.2, 150.0
FloatStr(cents) ==
  IntStr(cents \div 100) \o <<".">> \o
    (IF cents % 10 = 0 THEN <<Digit((cents % 100) \div 10)>>
     ELSE <<Digit((cents % 100) \div 10), Digit(cents % 10)>>)

\* round(price, 2) of a close held in thousandths (no close of the model is a tie)
Round2(mills) == IF mills % 10 >= 5 THEN mills \div 10 + 1 ELSE mills \div 10

\* what the provider does for one history() request: a last close, or a failure
\* (unknown symbol, network error, empty series)
ProviderOutcomes ==
  {[ok |-> TRUE, close |-> 150254], [ok |-> TRUE, close |-> 98996], [ok |-> FALSE, close |-> 0]}

ProviderFailure == <<"n","o"," ","d","a","t","a">>

get_stock_price(ticker, outcome) ==
  IF outcome.ok
  THEN [isPrice |-> TRUE, cents |-> Round2(outcome.close), msg |-> <<>>]
  ELSE [isPrice |-> FALSE, cents |-> 0,
        msg |-> <<"E","r","r","o","r"," ","f","e","t","c","h","i","n","g"," ","p","r","i","c","e"," ","f","o","r"," ">> \o ticker \o <<":"," ">> \o ProviderFailure]

\* f"{price}"
PriceStr(price) == IF price.isPrice THEN FloatStr(price.cents) ELSE price.msg

\* a dict that keeps the first value written for a key
DictPutKeepFirst(d, key, value) ==
  IF \E i \in 1..Len(d) : d[i].ticker = key
  THEN d
  ELSE Append(d, [ticker |-> key, price |-> value])

\* a dict keyed by the upper-cased ticker
DictPutUpper(d, key, value) ==
  IF \E i \in 1..Len(d) : d[i].ticker = upper(key)
  THEN [i \in 1..Len(d) |->
          IF d[i].ticker = upper(key) THEN [ticker |-> upper(key), price |-> value] ELSE d[i]]
  ELSE Append(d, [ticker |-> upper(key), price |-> value])

\* d[key] = value on a Python dict held as a sequence of entries in insertion order
DictPut(d, key, value) ==
  IF \E i \in 1..Len(d) : d[i].ticker = key
  THEN [i \in 1..Len(d) |-> IF d[i].ticker = key THEN [ticker |-> key, price |-> value] ELSE d[i]]
  ELSE Append(d, [ticker |-> key, price |-> value])

SummaryLine(entry) ==
  <<"T","h","e"," ","l","a","t","e","s","t"," ","p","r","i","c","e"," ","f","o","r"," ">> \o entry.ticker \o <<" ","i","s"," ","$">> \o PriceStr(entry.price)

\* "\n".join(f"The latest price for {ticker} is ${price}" for ... in stock_prices.items())
tool_results(prices) == Join([i \in 1..Len(prices) |-> SummaryLine(prices[i])], <<"\n">>)

(***************************************************************************)
(* process_text: the markup formatter.                                     *)
(***************************************************************************)
\* while "**" in line: line = line.replace("**", "<b>", 1).replace("**", "</b>", 1)
RECURSIVE BoldPass(_, _)
BoldPass(line, marker) ==
  IF Contains(line, marker)
  THEN BoldPass(ReplaceFirst(ReplaceFirst(line, marker, <<"<","b",">">>), marker, <<"<","/","b",">">>), marker)
  ELSE line

\* while "*" in line and line.count("*") >= 2: ...
RECURSIVE StarPass(_)
StarPass(line) ==
  IF Contains(line, <<"*">>) /\ count(line, <<"*">>) >= 2
  THEN StarPass(ReplaceFirst(ReplaceFirst(line, <<"*">>, <<"<","i",">">>), <<"*">>, <<"<","/","i",">">>))
  ELSE line

\* while "_" in line and line.count("_") >= 2 and "__" not in line: ...
RECURSIVE UnderscorePass(_)
UnderscorePass(line) ==
  IF Contains(line, <<"_">>) /\ count(line, <<"_">>) >= 2 /\ ~Contains(line, <<"_","_">>)
  THEN UnderscorePass(ReplaceFirst(ReplaceFirst(line, <<"_">>, <<"<","i",">">>), <<"_">>, <<"<","/","i",">">>))
  ELSE line

\* the heading or paragraph wrapping of a non-blank line
BlockWrap(line) ==
  IF startswith(line, <<"#","#","#"," ">>)
  THEN <<"<","h","3",">">> \o strip(SubSeq(line, 5, Len(line))) \o <<"<","/","h","3",">">>
  ELSE IF startswith(line, <<"#","#"," ">>)
  THEN <<"<","h","2",">">> \o strip(SubSeq(line, 4, Len(line))) \o <<"<","/","h","2",">">>
  ELSE IF startswith(line, <<"#"," ">>)
  THEN <<"<","h","1",">">> \o strip(SubSeq(line, 3, Len(line))) \o <<"<","/","h","1",">">>
  ELSE <<"<","p",">">> \o strip(line) \o <<"<","/","p",">">>

\* one iteration of `for line in lines`
process_line(line) ==
  IF strip(line) = <<>> THEN <<"<","b","r",">">>
  ELSE UnderscorePass(StarPass(BoldPass(BoldPass(BlockWrap(line), <<"*","*">>), <<"_","_">>)))

process_text(text) ==
  LET lines == SplitOn(text, "\n")
  IN Join([i \in 1..Len(lines) |-> process_line(lines[i])], <<>>)

\* the words of a fixed sentence, yielded without the trailing space
SentenceTokensNoSpace(sentence) == SplitWhitespace(sentence)

\* the tokens of a fixed sentence: word + " " for word in sentence.split()
SentenceTokens(sentence) ==
  LET words == SplitWhitespace(sentence)
  IN [i \in 1..Len(words) |-> words[i] \o <<" ">>]

\* the tokens of an answer: word + " " for word in process_text(raw).split(" ")
AnswerTokens(raw) ==
  LET words == SplitOn(process_text(raw), " ")
  IN [i \in 1..Len(words) |-> words[i] \o <<" ">>]

RefusalSentence == <<"I"," ","c","a","n"," ","o","n","l","y"," ","a","n","s","w","e","r"," ","q","u","e","s","t","i","o","n","s"," ","a","b","o","u","t"," ","s","t","o","c","k","s",","," ","c","r","y","p","t","o","c","u","r","r","e","n","c","y",","," ","o","r"," ","t","r","a","d","i","n","g","."," ","P","l","e","a","s","e"," ","a","s","k"," ","a","b","o","u","t"," ","o","n","e"," ","o","f"," ","t","h","o","s","e"," ","t","o","p","i","c","s","!">>
NoResponseSentence == <<"N","o"," ","r","e","s","p","o","n","s","e"," ","r","e","c","e","i","v","e","d"," ","f","r","o","m"," ","t","h","e"," ","A","P","I">>
UnableSentence == <<"E","r","r","o","r",":"," ","U","n","a","b","l","e"," ","t","o"," ","p","r","o","c","e","s","s"," ","t","h","e"," ","r","e","s","p","o","n","s","e">>

(***************************************************************************)
(* The model API's responses.                                              *)
(***************************************************************************)
Tickers == { <<"a","a","p","l">>, <<"A","A","P","L">>, <<"M","S","F","T">> }

\* tool_call.arguments: not JSON, an object without "ticker", or {"ticker": t}
Arguments ==
  {[json |-> "bad", ticker |-> <<>>], [json |-> "no_ticker", ticker |-> <<>>]}
    \cup {[json |-> "ok", ticker |-> t] : t \in Tickers}

Texts == { <<"H","i">>, <<"*","*","M","S","F","T","*","*"," ","i","s"," ","*","u","p","*","\n","\n","#"," ","N","o","t","e">> }

\* the first element of a message's content: an output text, or a refusal,
\* which has no text field
ContentParts ==
  {[hasText |-> FALSE, text |-> <<>>]} \cup {[hasText |-> TRUE, text |-> t] : t \in Texts}

NoArguments == [json |-> "bad", ticker |-> <<>>]

FunctionCallItems ==
  {[type |-> "function_call", name |-> "get_stock_price", arguments |-> a,
    hasContent |-> FALSE, content |-> <<>>] : a \in Arguments}
  \cup {[type |-> "function_call", name |-> "other_tool", arguments |-> NoArguments,
         hasContent |-> FALSE, content |-> <<>>]}

MessageItems ==
  {[type |-> "message", name |-> "", arguments |-> NoArguments,
    hasContent |-> TRUE, content |-> c] : c \in {<<>>} \cup {<<p>> : p \in ContentParts}}

Items == FunctionCallItems \cup MessageItems

\* response.output of the first call
FirstOutputs == UNION {[1..n -> Items] : n \in 0..MaxItems}

\* follow_up_response.output: the code reads its first item only
FollowUpOutputs == {<<>>} \cup {<<i>> : i \in Items}

\* client.responses.create either raises or returns a response
ApiOutcomes(outputs) ==
  {[raised |-> TRUE, output |-> <<>>]} \cup {[raised |-> FALSE, output |-> o] : o \in outputs}

IsFunctionCall(item) == item.type = "function_call"

\* tool_calls = [output for output in response.output if ... == "function_call"]
ToolCalls(output) == SelectSeq(output, IsFunctionCall)

\* hasattr(item, "content") and len(item.content) > 0
HasContent(item) == item.hasContent /\ Len(item.content) > 0

\* the first branch without the check for an empty output
FirstBranchNoEmptyCheck(output) ==
  IF ToolCalls(output) # <<>> THEN "tool"
  ELSE IF output # <<>> /\ HasContent(output[1]) /\ output[1].content[1].hasText THEN "direct"
  ELSE "error"

\* the branch taken on the first response, lines 165-291; an output of None
\* is falsy like the empty list and is held as <<>>
FirstBranch(output) ==
  IF output = <<>> THEN "no_output"
  ELSE IF ToolCalls(output) # <<>> THEN "tool"
  ELSE IF HasContent(output[1]) /\ output[1].content[1].hasText THEN "direct"
  ELSE "error"

\* the branch taken on the follow-up response, lines 257-275; "raise" is the
\* AttributeError of reading .text from a part that has none
FollowUpBranch(output) ==
  IF output # <<>> /\ HasContent(output[1])
  THEN IF output[1].content[1].hasText THEN "narrated" ELSE "raise"
  ELSE "fallback"

(***************************************************************************)
(* State.                                                                  *)
(***************************************************************************)
VARIABLES
  pc,            \* where the turn (or the classifier, or the formatter) is
  query,         \* the user's query
  related,       \* what is_related_to_stocks_crypto returned
  candidates,    \* potential_companies still to probe
  probes,        \* the symbols probed at the market-data provider
  response,      \* response.output of the first model call
  tool_idx,      \* the position of `for tool_call in tool_calls`
  stock_prices,  \* the dict stock_prices
  fetched,       \* the get_stock_price calls made, in order
  apiCalls,      \* the client.responses.create calls made
  follow_up,     \* follow_up_response.output
  path,          \* the branch that chose the streamed text
  pending,       \* the tokens the generator has still to yield
  tokens,        \* the tokens yielded so far
  text,          \* the formatter's input
  lines,         \* the lines process_text has still to process
  processed_lines \* process_text's processed_lines

vars == <<pc, query, related, candidates, probes, response, tool_idx, stock_prices,
          fetched, apiCalls, follow_up, path, pending, tokens, text, lines,
          processed_lines>>

classifierVars == <<query, related, candidates, probes>>
turnVars == <<response, tool_idx, stock_prices, fetched, apiCalls, follow_up, path,
              pending, tokens>>
formatVars == <<text, lines, processed_lines>>

(***************************************************************************)
(* Inputs.                                                                 *)
(***************************************************************************)
Vocabulary ==
  { <<"s","t","o","c","k">>, <<"X","A","U","U","S","D">>, <<"c","o","m","p","a","n","y">>, <<"A","c","m","e">>, <<"T","e","s","l","a">>, <<"w","e","a","t","h","e","r">>, <<"H","i">> }

RECURSIVE WordSeqs(_)
WordSeqs(n) ==
  IF n = 0 THEN {<<>>}
  ELSE WordSeqs(n - 1) \cup {Append(w, v) : w \in WordSeqs(n - 1), v \in Vocabulary}

\* the queries given to the classifier: up to MaxWords words joined by spaces
Queries == {Join(w, <<" ">>) : w \in WordSeqs(MaxWords) \ {<<>>}}

\* the queries of a turn: refused, in domain by keyword, in domain by a probe
TurnQueries == { <<"w","e","a","t","h","e","r">>, <<"s","t","o","c","k">>, <<"A","c","m","e"," ","c","o","m","p","a","n","y">> }

FormatAlphabet == {"*", "_", "a", " ", "\n", "#"}

\* the texts given to the formatter
FormatTexts == UNION {[1..n -> FormatAlphabet] : n \in 0..MaxLen}

InitCommon ==
  /\ related = FALSE
  /\ candidates = <<>>
  /\ probes = <<>>
  /\ response = <<>>
  /\ tool_idx = 1
  /\ stock_prices = <<>>
  /\ fetched = <<>>
  /\ apiCalls = 0
  /\ follow_up = <<>>
  /\ path = "none"
  /\ pending = <<>>
  /\ tokens = <<>>
  /\ lines = <<>>
  /\ processed_lines = <<>>

\* a turn: response_generator(query) has been called
Init ==
  /\ pc = "keywords"
  /\ query \in TurnQueries
  /\ text = <<>>
  /\ InitCommon

\* is_related_to_stocks_crypto(query) has been called
InitClassifier ==
  /\ pc = "keywords"
  /\ query \in Queries
  /\ text = <<>>
  /\ InitCommon

\* process_text(text) has been called
InitFormat ==
  /\ pc = "format"
  /\ query = <<>>
  /\ text \in FormatTexts
  /\ InitCommon

(***************************************************************************)
(* is_related_to_stocks_crypto, step by step.                              *)
(***************************************************************************)
\* lines 96-108: the keyword tiers up to the first probe; with no candidate
\* the probe loop has no iteration and the known companies come next
CheckKeywords ==
  /\ pc = "keywords"
  /\ IF AnyKeywordIn(keywords, lower(query))
     THEN /\ related' = TRUE
          /\ pc' = "classified"
          /\ candidates' = candidates
     ELSE /\ related' = related
          /\ IF AnyKeywordIn(company_keywords, lower(query))
                /\ potential_companies(query) # <<>>
             THEN /\ candidates' = potential_companies(query)
                  /\ pc' = "probe"
             ELSE /\ candidates' = candidates
                  /\ pc' = "known"
  /\ UNCHANGED <<query, probes>>
  /\ UNCHANGED turnVars
  /\ UNCHANGED formatVars

\* lines 111-118: one iteration of `for company in potential_companies`
ProbeCompany ==
  /\ pc = "probe"
  /\ \E outcome \in ProbeOutcomes :
       /\ probes' = Append(probes, upper(Head(candidates)))
       /\ IF outcome = "has_symbol"
          THEN /\ related' = TRUE
               /\ pc' = "classified"
               /\ candidates' = candidates
          ELSE /\ related' = related
               /\ candidates' = Tail(candidates)
               /\ pc' = IF Tail(candidates) = <<>> THEN "known" ELSE "probe"
  /\ UNCHANGED query
  /\ UNCHANGED turnVars
  /\ UNCHANGED formatVars

\* lines 121-141: the well-known companies
CheckKnownCompanies ==
  /\ pc = "known"
  /\ related' = AnyKeywordIn(known_companies, lower(query))
  /\ pc' = "classified"
  /\ UNCHANGED <<query, candidates, probes>>
  /\ UNCHANGED turnVars
  /\ UNCHANGED formatVars

NextClassifier == CheckKeywords \/ ProbeCompany \/ CheckKnownCompanies

SpecClassifier == InitClassifier /\ [][NextClassifier]_vars

(***************************************************************************)
(* process_text, line by line.                                             *)
(***************************************************************************)
\* line 175: lines = text.split("\n")
SplitLines ==
  /\ pc = "format"
  /\ lines' = SplitOn(text, "\n")
  /\ pc' = "format_loop"
  /\ UNCHANGED <<text, processed_lines>>
  /\ UNCHANGED classifierVars
  /\ UNCHANGED turnVars

\* lines 178-210: one iteration of `for line in lines`
ProcessLine ==
  /\ pc = "format_loop"
  /\ lines # <<>>
  /\ processed_lines' = Append(processed_lines, process_line(Head(lines)))
  /\ lines' = Tail(lines)
  /\ pc' = IF Tail(lines) = <<>> THEN "formatted" ELSE "format_loop"
  /\ UNCHANGED text
  /\ UNCHANGED classifierVars
  /\ UNCHANGED turnVars

NextFormat == SplitLines \/ ProcessLine

SpecFormat == InitFormat /\ [][NextFormat]_vars

(***************************************************************************)
(* response_generator, from one network call or yield to the next.         *)
(***************************************************************************)
\* lines 146-152: the classifier said no; the refusal is ready to be yielded
Refuse ==
  /\ pc = "classified"
  /\ ~related
  /\ path' = "refusal"
  /\ pending' = SentenceTokens(RefusalSentence)
  /\ pc' = "stream"
  /\ UNCHANGED <<response, tool_idx, stock_prices, fetched, apiCalls, follow_up, tokens>>
  /\ UNCHANGED classifierVars
  /\ UNCHANGED formatVars

\* lines 155-220 and 276-291: the first model call and the branch on its output
FirstCall ==
  /\ pc = "classified"
  /\ related
  /\ apiCalls' = apiCalls + 1
  /\ \E r \in ApiOutcomes(FirstOutputs) :
       IF r.raised
       THEN /\ pc' = "raised"
            /\ UNCHANGED <<response, path, pending>>
       ELSE /\ response' = r.output
            /\ CASE FirstBranch(r.output) = "no_output" ->
                      /\ path' = "no_output"
                      /\ pending' = SentenceTokens(NoResponseSentence)
                      /\ pc' = "stream"
                 [] FirstBranch(r.output) = "tool" ->
                      /\ path' = "tool"
                      /\ pending' = pending
                      /\ pc' = "resolve"
                 [] FirstBranch(r.output) = "direct" ->
                      /\ path' = "direct"
                      /\ pending' = AnswerTokens(r.output[1].content[1].text)
                      /\ pc' = "stream"
                 [] OTHER ->
                      /\ path' = "error"
                      /\ pending' = SentenceTokens(UnableSentence)
                      /\ pc' = "stream"
  /\ UNCHANGED <<tool_idx, stock_prices, fetched, follow_up, tokens>>
  /\ UNCHANGED classifierVars
  /\ UNCHANGED formatVars

\* a loop that stops after the first tool call
ToolLoopDoneAfterFirst == tool_idx > 1

\* line 225: `for tool_call in tool_calls` has no item left
ToolLoopDone == tool_idx > Len(ToolCalls(response))

\* lines 225-230: one iteration of `for tool_call in tool_calls`
ResolveToolCall ==
  /\ pc = "resolve"
  /\ tool_idx <= Len(ToolCalls(response))
  /\ LET tool_call == ToolCalls(response)[tool_idx] IN
       IF tool_call.name # "get_stock_price"
       THEN /\ tool_idx' = tool_idx + 1
            /\ UNCHANGED <<pc, stock_prices, fetched>>
       ELSE IF tool_call.arguments.json # "ok"
       THEN \* json.loads raises, or args["ticker"] raises KeyError
            /\ pc' = "raised"
            /\ UNCHANGED <<tool_idx, stock_prices, fetched>>
       ELSE \E outcome \in ProviderOutcomes :
              LET ticker == tool_call.arguments.ticker
                  price == get_stock_price(ticker, outcome)
              IN /\ fetched' = Append(fetched, [ticker |-> ticker,
                                               symbol |-> upper(ticker),
                                               price |-> price])
                 /\ stock_prices' = DictPut(stock_prices, ticker, price)
                 /\ tool_idx' = tool_idx + 1
                 /\ pc' = pc
  /\ UNCHANGED <<response, apiCalls, follow_up, path, pending, tokens>>
  /\ UNCHANGED classifierVars
  /\ UNCHANGED formatVars

\* lines 233-275: the follow-up model call and the branch on its output
SecondCall ==
  /\ pc = "resolve"
  /\ ToolLoopDone
  /\ apiCalls' = apiCalls + 1
  /\ \E r \in ApiOutcomes(FollowUpOutputs) :
       IF r.raised
       THEN /\ pc' = "raised"
            /\ UNCHANGED <<follow_up, path, pending>>
       ELSE /\ follow_up' = r.output
            /\ CASE FollowUpBranch(r.output) = "narrated" ->
                      /\ path' = "narrated"
                      /\ pending' = AnswerTokens(r.output[1].content[1].text)
                      /\ pc' = "stream"
                 [] FollowUpBranch(r.output) = "fallback" ->
                      /\ path' = "fallback"
                      /\ pending' = AnswerTokens(tool_results(stock_prices))
                      /\ pc' = "stream"
                 [] OTHER ->
                      /\ pc' = "raised"
                      /\ UNCHANGED <<path, pending>>
  /\ UNCHANGED <<response, tool_idx, stock_prices, fetched, tokens>>
  /\ UNCHANGED classifierVars
  /\ UNCHANGED formatVars

\* `yield word + " "`: the caller pulls the next token
Yield ==
  /\ pc = "stream"
  /\ pending # <<>>
  /\ tokens' = Append(tokens, Head(pending))
  /\ pending' = Tail(pending)
  /\ UNCHANGED <<pc, response, tool_idx, stock_prices, fetched, apiCalls, follow_up, path>>
  /\ UNCHANGED classifierVars
  /\ UNCHANGED formatVars

\* the generator returns: the caller's next pull ends the iteration
Return ==
  /\ pc = "stream"
  /\ pending = <<>>
  /\ pc' = "done"
  /\ UNCHANGED <<response, tool_idx, stock_prices, fetched, apiCalls, follow_up, path,
                 pending, tokens>>
  /\ UNCHANGED classifierVars
  /\ UNCHANGED formatVars

Next ==
  \/ CheckKeywords
  \/ ProbeCompany
  \/ CheckKnownCompanies
  \/ Refuse
  \/ FirstCall
  \/ ResolveToolCall
  \/ SecondCall
  \/ Yield
  \/ Return

Spec == Init /\ [][Next]_vars

(***************************************************************************)
(* Properties.                                                             *)
(***************************************************************************)
\* the elements of a sequence, as a set
Range(seq) == {seq[i] : i \in 1..Len(seq)}

IsPrefix(s, t) == Len(s) <= Len(t) /\ s = SubSeq(t, 1, Len(s))

Classifying == pc \in {"keywords", "probe", "known"}

IsQuoteCall(item) == item.type = "function_call" /\ item.name = "get_stock_price"

\* the get_stock_price items of the first response, in the order of the output
QuoteCalls == SelectSeq(response, IsQuoteCall)

RefusalWords == <<
    <<"I"," ">>,
    <<"c","a","n"," ">>,
    <<"o","n","l","y"," ">>,
    <<"a","n","s","w","e","r"," ">>,
    <<"q","u","e","s","t","i","o","n","s"," ">>,
    <<"a","b","o","u","t"," ">>,
    <<"s","t","o","c","k","s",","," ">>,
    <<"c","r","y","p","t","o","c","u","r","r","e","n","c","y",","," ">>,
    <<"o","r"," ">>,
    <<"t","r","a","d","i","n","g","."," ">>,
    <<"P","l","e","a","s","e"," ">>,
    <<"a","s","k"," ">>,
    <<"a","b","o","u","t"," ">>,
    <<"o","n","e"," ">>,
    <<"o","f"," ">>,
    <<"t","h","o","s","e"," ">>,
    <<"t","o","p","i","c","s","!"," ">> >>

NoResponseWords == <<
    <<"N","o"," ">>,
    <<"r","e","s","p","o","n","s","e"," ">>,
    <<"r","e","c","e","i","v","e","d"," ">>,
    <<"f","r","o","m"," ">>,
    <<"t","h","e"," ">>,
    <<"A","P","I"," ">> >>

\* C1: response_generator never raises to its caller, whatever the model API,
\* the tool-call arguments, the message parts and the quote provider do.
C1_NeverRaises == pc # "raised"

\* C2: when the classifier returns false the turn yields exactly the words of
\* the refusal sentence, in order, each followed by one space, and neither
\* the model API nor get_stock_price is called.
C2_RefusalExact ==
  (~Classifying /\ ~related) =>
    /\ apiCalls = 0
    /\ fetched = <<>>
    /\ pc \in {"classified", "stream", "done"}
    /\ IsPrefix(tokens, RefusalWords)
    /\ (pc = "done" => tokens = RefusalWords)

C2_Witness == pc = "done" /\ ~related /\ Len(tokens) = Len(RefusalWords)

\* the first model call has returned an empty output
FirstReturnedEmpty == apiCalls >= 1 /\ response = <<>> /\ pc # "raised"

\* C3: when the first model call returns an empty output the turn yields
\* exactly the tokens of 'No response received from the API': no quote is
\* fetched and no second model call is made.
C3_NoResponseExact ==
  FirstReturnedEmpty =>
    /\ apiCalls = 1
    /\ fetched = <<>>
    /\ pc \in {"stream", "done"}
    /\ IsPrefix(tokens, NoResponseWords)
    /\ (pc = "done" => tokens = NoResponseWords)

C3_Witness == FirstReturnedEmpty /\ pc = "done" /\ tokens # <<>>

RequestedTickers == {fetched[i].ticker : i \in 1..Len(fetched)}

LastFetch(t) ==
  fetched[CHOOSE i \in 1..Len(fetched) :
            /\ fetched[i].ticker = t
            /\ \A j \in (i + 1)..Len(fetched) : fetched[j].ticker # t]

ExpectedLine(t) ==
  <<"T","h","e"," ","l","a","t","e","s","t"," ","p","r","i","c","e"," ","f","o","r"," ">> \o t \o <<" ","i","s"," ","$">> \o PriceStr(LastFetch(t).price)

\* C4: the tool-result text of the second model call holds exactly one line
\* 'The latest price for T is $P' per distinct requested ticker T, P being
\* the result of the last fetch for T; the fetcher is called once per
\* get_stock_price item, in the order of the output.  Stated of the states the
\* second call leaves, before the first token is pulled.
C4_OneLinePerTicker ==
  (apiCalls = 2 /\ tokens = <<>>) =>
    /\ Len(fetched) = Len(QuoteCalls)
    /\ \A i \in 1..Len(fetched) : fetched[i].ticker = QuoteCalls[i].arguments.ticker
    /\ IF RequestedTickers = {}
       THEN tool_results(stock_prices) = <<>>
       ELSE LET summary == SplitOn(tool_results(stock_prices), "\n") IN
              /\ Len(summary) = Cardinality(RequestedTickers)
              /\ Range(summary) = {ExpectedLine(t) : t \in RequestedTickers}

C4_Witness ==
  /\ apiCalls = 2
  /\ tokens = <<>>
  /\ \E i, j \in 1..Len(fetched) :
       /\ i < j
       /\ fetched[i].ticker = fetched[j].ticker
       /\ fetched[i].price # fetched[j].price

\* C5: a query that contains a finance/crypto keyword, whatever its letter
\* case, is classified true without a probe of the provider; probes happen
\* only when no such keyword matches and a business keyword does.
C5_KeywordNoProbe ==
  LET hasKeyword == \E i \in 1..Len(keywords) : Contains(lower(query), lower(keywords[i]))
  IN /\ (pc = "classified" /\ hasKeyword) => (related /\ probes = <<>>)
     /\ probes # <<>> => (~hasKeyword /\ AnyKeywordIn(company_keywords, lower(query)))

\* C6: the formatter converts markers in open/close pairs only: no processed
\* line holds an opening <b> or <i> without its closing tag.
C6_PairedTags ==
  \A i \in 1..Len(processed_lines) :
    /\ count(processed_lines[i], <<"<","b",">">>) = count(processed_lines[i], <<"<","/","b",">">>)
    /\ count(processed_lines[i], <<"<","i",">">>) = count(processed_lines[i], <<"<","/","i",">">>)

\* C7: after a non-empty first output the turn enters tool resolution, and
\* makes the second model call, only if the output holds a function call
\* naming get_stock_price, and always if it does.
C7_ToolResolutionIffQuoteCall ==
  (response # <<>> /\ pc # "raised") =>
    ((pc = "resolve" \/ apiCalls = 2) <=> QuoteCalls # <<>>)

\* C8: the network operations of a turn are sequential and never retried: at
\* most two model calls, every fetch after the first call has returned and
\* before the second is issued, one fetch per tool call, the second call only
\* after the tool loop, and no token before the last network call.
C8_Sequential ==
  [][/\ apiCalls' <= 2
     /\ apiCalls' # apiCalls =>
          (apiCalls' = apiCalls + 1 /\ fetched' = fetched /\ tokens = <<>>)
     /\ (apiCalls = 1 /\ apiCalls' = 2) =>
          (pc = "resolve" /\ tool_idx > Len(ToolCalls(response)))
     /\ fetched' # fetched =>
          /\ apiCalls = 1
          /\ apiCalls' = 1
          /\ Len(fetched') = Len(fetched) + 1
          /\ SubSeq(fetched', 1, Len(fetched)) = fetched
     /\ Len(fetched') <= Len(QuoteCalls')
     /\ (tokens # <<>> \/ pc \in {"raised", "done"}) =>
          (apiCalls' = apiCalls /\ fetched' = fetched)
    ]_vars

C8_Witness == apiCalls = 2 /\ Len(fetched) >= 2 /\ pc = "done" /\ tokens # <<>>

\* C9: whatever the second response is, the turn streams an answer: the text
\* of its first item when that item has non-empty content, the tool-result
\* summary otherwise; it never ends in an error or without tokens.
C9_SecondCallAlwaysStreams ==
  (apiCalls = 2 /\ follow_up # <<>>) =>
    /\ pc \in {"stream", "done"}
    /\ path = (IF HasContent(follow_up[1]) THEN "narrated" ELSE "fallback")

\* C10 as stated: every key of the quote mapping is upper case, so tickers
\* that differ only in letter case share one entry.
C10_UpperKeys ==
  \A i \in 1..Len(stock_prices) : stock_prices[i].ticker = upper(stock_prices[i].ticker)

\* C10 amended: the mapping is keyed by the ticker exactly as the arguments
\* give it, one entry per distinct spelling; only the symbol sent to the
\* provider is upper case.
C10_RawKeys ==
  /\ \A i \in 1..Len(fetched) :
       /\ fetched[i].ticker = QuoteCalls[i].arguments.ticker
       /\ fetched[i].symbol = upper(fetched[i].ticker)
  /\ {stock_prices[i].ticker : i \in 1..Len(stock_prices)} = RequestedTickers
  /\ Len(stock_prices) = Cardinality(RequestedTickers)

C10_Witness ==
  \E i, j \in 1..Len(stock_prices) :
    /\ stock_prices[i].ticker # stock_prices[j].ticker
    /\ upper(stock_prices[i].ticker) = upper(stock_prices[j].ticker)

====
